---- MODULE Spec2Model ----
(***************************************************************************)
(* The work ledger of dkoosis/next (src/main.go, first program of the      *)
(* file, lines 1-439): one SQLite table "queue" and the five commands      *)
(* enqueue, claim, done, status and reset that independent processes run   *)
(* against it.  Every SQL statement is atomic; a command is one action.    *)
(***************************************************************************)
EXTENDS Integers, Sequences, FiniteSets, TLC

(***************************************************************************)
(* Bounds of the model.                                                    *)
(***************************************************************************)
\* hex digits of a digest (64 in the program: sha256, hex encoded)
HashDigits == 2
\* leading hex digits that the shard partitioner reads (16 in the program)
PrefixDigits == 1
\* commands and environment steps in one behaviour
MaxOps == 4
\* largest clock reading (seconds)
MaxTime == 2
\* largest shard count probed
MaxShards == 4
\* largest number of worker loops, one per shard
MaxWorkers == 2

(***************************************************************************)
(* Text.  A string that is compared by the store is a sequence of          *)
(* character codes; SQLite's BINARY collation compares them bytewise.      *)
(***************************************************************************)
\* the empty string (the default --cursor)
EmptyText == <<>>

\* bytewise comparison a < b of two strings (memcmp, then the shorter first)
RECURSIVE TextLess(_, _)
TextLess(a, b) ==
    IF b = <<>> THEN FALSE
    ELSE IF a = <<>> THEN TRUE
    ELSE IF a[1] # b[1] THEN a[1] < b[1]
    ELSE TextLess(Tail(a), Tail(b))

\* a > b
TextGreater(a, b) == TextLess(b, a)

\* one hex digit 0..15 as the character hex.EncodeToString writes for it
\* ("0123456789abcdef": '0' is 48, 'a' is 97)
HexChar(d) == IF d < 10 THEN 48 + d ELSE 87 + d

\* hex.EncodeToString of a digest given in 4-bit units
HexEncodeToString(digest) == [k \in 1..Len(digest) |-> HexChar(digest[k])]

(***************************************************************************)
(* The file system the commands run in (working directory /w).             *)
(***************************************************************************)
\* the files that exist
Paths == {"/w/a.txt", "/w/b.txt", "/w/c.txt"}

\* what a file may hold
Contents == {"v1", "v2"}

\* lines that may arrive on enqueue's standard input
Lines == {"", "a.txt", "/w/a.txt", "/w/b.txt", "/w/c.txt", "/w/missing.txt"}

\* filepath.Abs with working directory /w
Abs(line) == IF line = "a.txt" THEN "/w/a.txt" ELSE line

\* sha256 of the strings of the model: leading and trailing 4-bit unit
ShaLead ==
    [s \in Paths \cup Contents \cup {"/w/missing.txt"} |->
        CASE s = "/w/a.txt" -> 2
          [] s = "/w/b.txt" -> 9
          [] s = "/w/c.txt" -> 15
          [] s = "/w/missing.txt" -> 6
          [] s = "v1" -> 1
          [] s = "v2" -> 5]

ShaTail ==
    [s \in Paths \cup Contents \cup {"/w/missing.txt"} |->
        CASE s = "/w/a.txt" -> 11
          [] s = "/w/b.txt" -> 14
          [] s = "/w/c.txt" -> 3
          [] s = "/w/missing.txt" -> 0
          [] s = "v1" -> 7
          [] s = "v2" -> 10]

\* sha256.Sum256, in 4-bit units
Sum256(s) ==
    [k \in 1..HashDigits |-> IF k <= PrefixDigits THEN ShaLead[s] ELSE ShaTail[s]]

\* pathHash: hex of the sha256 of the path
pathHash(s) == HexEncodeToString(Sum256(s))

\* fileHash: hex of the sha256 of the file's content, or an error when the
\* file cannot be opened
fileHash(fs, path) ==
    IF path \in DOMAIN fs
    THEN [err |-> FALSE, hash |-> HexEncodeToString(Sum256(fs[path]))]
    ELSE [err |-> TRUE, hash |-> EmptyText]

(***************************************************************************)
(* Nullable columns: NULL is the empty tuple, a value v is <<v>>.          *)
(***************************************************************************)
NULL == <<>>

Some(v) == <<v>>

\* the treatments, results and revisit modifiers the commands are given
Treatments == {"lint", "other"}

Results == {"", "r1"}

Revisits == {"", "+1 second", "soon"}

\* SQLite's DATETIME('now', modifier): the statement's clock moved by the
\* modifier, NULL for a modifier SQLite cannot parse
Datetime(sqlNow, modifier) ==
    IF modifier = "+1 second" THEN Some(sqlNow + 1) ELSE NULL

(***************************************************************************)
(* Table queue, PRIMARY KEY (path_hash, treatment): a set of rows.         *)
(***************************************************************************)
\* NewRow with the two hash arguments bound in the wrong order
NewRow_HashesSwapped(absPath, ph, ch, t) ==
    [path |-> absPath, path_hash |-> ch, content_hash |-> ph, treatment |-> t,
     done_at |-> NULL, result |-> NULL, next_at |-> NULL]

\* the row INSERT ... VALUES (?, ?, ?, ?, NULL, NULL, NULL) proposes
NewRow(absPath, ph, ch, t) ==
    [path |-> absPath, path_hash |-> ph, content_hash |-> ch, treatment |-> t,
     done_at |-> NULL, result |-> NULL, next_at |-> NULL]

\* a conflict target that leaves the treatment out: ON CONFLICT(path_hash)
Conflicts_AnyTreatment(q, ph, t) == {r \in q : r.path_hash = ph}

\* the rows the proposed row conflicts with on the primary key
Conflicts(q, ph, t) == {r \in q : r.path_hash = ph /\ r.treatment = t}

\* DoUpdate that compares the content hash after it was overwritten, so that
\* a changed content never re-activates the row
DoUpdate_ComparesAfterWrite(r, absPath, ch) ==
    [r EXCEPT !.path = absPath, !.content_hash = ch]

\* DoUpdate that re-activates the row on every enqueue
DoUpdate_AlwaysResets(r, absPath, ch) ==
    [r EXCEPT !.path = absPath, !.content_hash = ch, !.done_at = NULL,
              !.result = NULL, !.next_at = NULL]

\* DoUpdate without the next_at line: a re-activated row keeps its revisit time
DoUpdate_KeepsNextAt(r, absPath, ch) ==
    [r EXCEPT !.path = absPath,
              !.content_hash = ch,
              !.done_at = IF r.content_hash = ch THEN r.done_at ELSE NULL,
              !.result = IF r.content_hash = ch THEN r.result ELSE NULL]

\* ON CONFLICT DO UPDATE SET ...: every right-hand side reads the row as it
\* was before the update
DoUpdate(r, absPath, ch) ==
    [r EXCEPT !.path = absPath,
              !.content_hash = ch,
              !.done_at = IF r.content_hash = ch THEN r.done_at ELSE NULL,
              !.result = IF r.content_hash = ch THEN r.result ELSE NULL,
              !.next_at = IF r.content_hash = ch THEN r.next_at ELSE NULL]

\* Upsert on a table whose key also holds the content hash: a changed content
\* is inserted as a second row
Upsert_ContentInKey(q, absPath, ph, ch, t) ==
    IF {r \in Conflicts(q, ph, t) : r.content_hash = ch} = {}
    THEN q \cup {NewRow(absPath, ph, ch, t)}
    ELSE q

\* the enqueue statement as INSERT OR REPLACE: the row is always a new one
Upsert_InsertOrReplace(q, absPath, ph, ch, t) ==
    (q \ Conflicts(q, ph, t)) \cup {NewRow(absPath, ph, ch, t)}

\* the enqueue statement: INSERT ... ON CONFLICT(path_hash, treatment) DO UPDATE
Upsert(q, absPath, ph, ch, t) ==
    IF Conflicts(q, ph, t) = {}
    THEN q \cup {NewRow(absPath, ph, ch, t)}
    ELSE (q \ Conflicts(q, ph, t))
            \cup {DoUpdate(r, absPath, ch) : r \in Conflicts(q, ph, t)}

\* the enqueue loop that returns at an unreadable file instead of skipping it
RECURSIVE EnqueueLoop_StopsAtUnreadable(_, _, _, _, _)
EnqueueLoop_StopsAtUnreadable(st, fs, t, input, failAt) ==
    IF st.k > Len(input) THEN st
    ELSE LET path == input[st.k]
             absPath == Abs(path)
             ch == fileHash(fs, absPath)
             skip == [st EXCEPT !.k = st.k + 1]
         IN  IF path = "" THEN EnqueueLoop_StopsAtUnreadable(skip, fs, t, input, failAt)
             ELSE IF ch.err THEN st
             ELSE IF st.k = failAt THEN [st EXCEPT !.err = TRUE]
             ELSE EnqueueLoop_StopsAtUnreadable(
                     [skip EXCEPT
                        !.queue = Upsert(st.queue, absPath, pathHash(absPath), ch.hash, t),
                        !.count = st.count + 1,
                        !.written = st.written \cup {<<absPath, t>>}],
                     fs, t, input, failAt)

\* the enqueue loop that notes a failed write and goes on with the next line
RECURSIVE EnqueueLoop_GoesOnAfterFailure(_, _, _, _, _)
EnqueueLoop_GoesOnAfterFailure(st, fs, t, input, failAt) ==
    IF st.k > Len(input) THEN st
    ELSE LET path == input[st.k]
             absPath == Abs(path)
             ch == fileHash(fs, absPath)
             skip == [st EXCEPT !.k = st.k + 1]
         IN  IF path = "" \/ ch.err
             THEN EnqueueLoop_GoesOnAfterFailure(skip, fs, t, input, failAt)
             ELSE IF st.k = failAt
             THEN EnqueueLoop_GoesOnAfterFailure([skip EXCEPT !.err = TRUE],
                                                 fs, t, input, failAt)
             ELSE EnqueueLoop_GoesOnAfterFailure(
                     [skip EXCEPT
                        !.queue = Upsert(st.queue, absPath, pathHash(absPath), ch.hash, t),
                        !.count = st.count + 1,
                        !.written = st.written \cup {<<absPath, t>>}],
                     fs, t, input, failAt)

\* the enqueue loop that counts the rows it inserted, not the lines it wrote
RECURSIVE EnqueueLoop_CountsNewRows(_, _, _, _, _)
EnqueueLoop_CountsNewRows(st, fs, t, input, failAt) ==
    IF st.k > Len(input) THEN st
    ELSE LET path == input[st.k]
             absPath == Abs(path)
             ch == fileHash(fs, absPath)
             skip == [st EXCEPT !.k = st.k + 1]
         IN  IF path = "" \/ ch.err
             THEN EnqueueLoop_CountsNewRows(skip, fs, t, input, failAt)
             ELSE IF st.k = failAt THEN [st EXCEPT !.err = TRUE]
             ELSE EnqueueLoop_CountsNewRows(
                     [skip EXCEPT
                        !.queue = Upsert(st.queue, absPath, pathHash(absPath), ch.hash, t),
                        !.count = IF Conflicts(st.queue, pathHash(absPath), t) = {}
                                  THEN st.count + 1 ELSE st.count,
                        !.written = st.written \cup {<<absPath, t>>}],
                     fs, t, input, failAt)

\* the enqueue loop over the input lines from line st.k on: an empty line or
\* an unreadable file is skipped, a failed write returns the error at once.
\* failAt is the line whose db.Exec fails (0: none does)
RECURSIVE EnqueueLoop(_, _, _, _, _)
EnqueueLoop(st, fs, t, input, failAt) ==
    IF st.k > Len(input) THEN st
    ELSE LET path == input[st.k]
             absPath == Abs(path)
             ch == fileHash(fs, absPath)
             skip == [st EXCEPT !.k = st.k + 1]
         IN  IF path = "" \/ ch.err THEN EnqueueLoop(skip, fs, t, input, failAt)
             ELSE IF st.k = failAt THEN [st EXCEPT !.err = TRUE]
             ELSE EnqueueLoop(
                     [skip EXCEPT
                        !.queue = Upsert(st.queue, absPath, pathHash(absPath), ch.hash, t),
                        !.count = st.count + 1,
                        !.written = st.written \cup {<<absPath, t>>}],
                     fs, t, input, failAt)

\* doEnqueueCmd on table q: the table, the count and the error it ends with
doEnqueue(q, fs, t, input, failAt) ==
    EnqueueLoop([queue |-> q, count |-> 0, k |-> 1, err |-> FALSE, written |-> {}],
                fs, t, input, failAt)

\* ClaimWhere that also takes the completed rows that carry a revisit time
ClaimWhere_TakesRevisits(q, t, cursor) ==
    {r \in q : /\ r.treatment = t
               /\ (r.done_at = NULL \/ r.next_at # NULL)
               /\ TextLess(cursor, r.path_hash)}

\* ClaimWhere that resumes at the cursor instead of after it
ClaimWhere_FromCursor(q, t, cursor) ==
    {r \in q : r.treatment = t /\ r.done_at = NULL /\ ~TextLess(r.path_hash, cursor)}

\* WHERE treatment = ? AND done_at IS NULL AND path_hash > ?
ClaimWhere(q, t, cursor) ==
    {r \in q : r.treatment = t /\ r.done_at = NULL /\ TextGreater(r.path_hash, cursor)}

\* ORDER BY path_hash DESC
RECURSIVE OrderByPathHash_Descending(_)
OrderByPathHash_Descending(rows) ==
    IF rows = {} THEN <<>>
    ELSE LET first == CHOOSE r \in rows :
                         \A o \in rows : ~TextLess(r.path_hash, o.path_hash)
         IN  <<first>> \o OrderByPathHash_Descending(rows \ {first})

\* ORDER BY path_hash
RECURSIVE OrderByPathHash(_)
OrderByPathHash(rows) ==
    IF rows = {} THEN <<>>
    ELSE LET first == CHOOSE r \in rows :
                         \A o \in rows : ~TextLess(o.path_hash, r.path_hash)
         IN  <<first>> \o OrderByPathHash(rows \ {first})

\* LIMIT that lets through one row less
Limit_OneLess(rows, n) ==
    IF n < 0 \/ n - 1 >= Len(rows) THEN rows
    ELSE IF n = 0 THEN <<>> ELSE SubSeq(rows, 1, n - 1)

\* LIMIT n: a negative limit is no limit in SQLite
Limit(rows, n) ==
    IF n < 0 \/ n >= Len(rows) THEN rows ELSE SubSeq(rows, 1, n)

\* SELECT path, path_hash: the ClaimResult of a row
ClaimResult(r) == [Path |-> r.path, PathHash |-> r.path_hash]

\* the claim query and the scan loop that collects its rows
ClaimQuery(q, t, cursor, n) ==
    LET rows == Limit(OrderByPathHash(ClaimWhere(q, t, cursor)), n)
    IN  [k \in 1..Len(rows) |-> ClaimResult(rows[k])]

\* DoneUpdate whose WHERE clause leaves out the treatment
DoneUpdate_AnyTreatment(q, doneAt, result, nextAt, ph, t) ==
    {IF r.path_hash = ph
        THEN [r EXCEPT !.done_at = Some(doneAt), !.result = Some(result),
                       !.next_at = nextAt]
        ELSE r : r \in q}

\* DoneUpdate as INSERT OR REPLACE: a key without a row gets a completed row
DoneUpdate_InsertsMissing(q, doneAt, result, nextAt, ph, t) ==
    IF \E r \in q : r.path_hash = ph /\ r.treatment = t
    THEN {IF r.path_hash = ph /\ r.treatment = t
             THEN [r EXCEPT !.done_at = Some(doneAt), !.result = Some(result),
                            !.next_at = nextAt]
             ELSE r : r \in q}
    ELSE q \cup {[path |-> "", path_hash |-> ph, content_hash |-> EmptyText,
                  treatment |-> t, done_at |-> Some(doneAt), result |-> Some(result),
                  next_at |-> nextAt]}

\* DoneUpdate that stores an empty result as NULL
DoneUpdate_EmptyResultNull(q, doneAt, result, nextAt, ph, t) ==
    {IF r.path_hash = ph /\ r.treatment = t
        THEN [r EXCEPT !.done_at = Some(doneAt),
                       !.result = IF result = "" THEN NULL ELSE Some(result),
                       !.next_at = nextAt]
        ELSE r : r \in q}

\* DoneUpdate with AND done_at IS NULL: the first completion stays
DoneUpdate_FirstWins(q, doneAt, result, nextAt, ph, t) ==
    {IF r.path_hash = ph /\ r.treatment = t /\ r.done_at = NULL
        THEN [r EXCEPT !.done_at = Some(doneAt), !.result = Some(result),
                       !.next_at = nextAt]
        ELSE r : r \in q}

\* UPDATE queue SET done_at = ?, result = ?, next_at = ... WHERE path_hash = ?
\* AND treatment = ?
DoneUpdate(q, doneAt, result, nextAt, ph, t) ==
    {IF r.path_hash = ph /\ r.treatment = t
        THEN [r EXCEPT !.done_at = Some(doneAt), !.result = Some(result),
                       !.next_at = nextAt]
        ELSE r : r \in q}

\* the DELETE of reset without its WHERE clause
ResetDelete_All(q, t) == {}

\* DELETE FROM queue WHERE treatment = ?
ResetDelete(q, t) == {r \in q : r.treatment # t}

\* text order of the treatment names ("lint" < "other")
TreatmentRank(t) == IF t = "lint" THEN 1 ELSE 2

\* the stats CTE without its WHERE clause
Stats_IgnoresFilter(q, filter) ==
    {[Treatment |-> t,
      Pending |-> Cardinality({r \in q : r.treatment = t /\ r.done_at = NULL}),
      Done |-> Cardinality({r \in q : r.treatment = t /\ r.done_at # NULL})] :
        t \in {r.treatment : r \in q}}

\* the stats CTE: one row per treatment of the (filtered) table
Stats(q, filter) ==
    {[Treatment |-> t,
      Pending |-> Cardinality({r \in q : r.treatment = t /\ r.done_at = NULL}),
      Done |-> Cardinality({r \in q : r.treatment = t /\ r.done_at # NULL})] :
        t \in {r.treatment : r \in {x \in q : filter = "" \/ x.treatment = filter}}}

RECURSIVE SumOf(_, _)
SumOf(rows, column) ==
    IF rows = {} THEN 0
    ELSE LET r == CHOOSE x \in rows : TRUE
         IN  (IF column = "Pending" THEN r.Pending ELSE r.Done)
                + SumOf(rows \ {r}, column)

\* SELECT treatment, pending, done FROM stats ... ORDER BY treatment
RECURSIVE OrderByTreatment(_)
OrderByTreatment(rows) ==
    IF rows = {} THEN <<>>
    ELSE LET first == CHOOSE r \in rows :
                         \A o \in rows : TreatmentRank(r.Treatment) <= TreatmentRank(o.Treatment)
         IN  <<[Treatment |-> first.Treatment, Pending |-> Some(first.Pending),
                Done |-> Some(first.Done)]>> \o OrderByTreatment(rows \ {first})

\* the total row with COUNT in place of SUM
TotalRow_CountsRows(stats) ==
    [Treatment |-> "TOTAL",
     Pending |-> IF stats = {} THEN NULL ELSE Some(Cardinality(stats)),
     Done |-> IF stats = {} THEN NULL ELSE Some(Cardinality(stats))]

\* SELECT 'TOTAL', SUM(pending), SUM(done) FROM stats: always one row, whose
\* sums are NULL when stats is empty
TotalRow(stats) ==
    [Treatment |-> "TOTAL",
     Pending |-> IF stats = {} THEN NULL ELSE Some(SumOf(stats, "Pending")),
     Done |-> IF stats = {} THEN NULL ELSE Some(SumOf(stats, "Done"))]

\* the scan loop reading a NULL count as zero
RECURSIVE ScanStatus_NullAsZero(_)
ScanStatus_NullAsZero(rows) ==
    IF rows = <<>> THEN <<>>
    ELSE LET r == Head(rows)
         IN  <<[Treatment |-> r.Treatment,
                Pending |-> IF r.Pending = NULL THEN 0 ELSE r.Pending[1],
                Done |-> IF r.Done = NULL THEN 0 ELSE r.Done[1]]>>
                 \o ScanStatus_NullAsZero(Tail(rows))

\* the scan loop of statusCmd: a row whose count is NULL cannot be scanned
\* into an int and is skipped
RECURSIVE ScanStatus(_)
ScanStatus(rows) ==
    IF rows = <<>> THEN <<>>
    ELSE LET r == Head(rows)
         IN  IF r.Pending = NULL \/ r.Done = NULL THEN ScanStatus(Tail(rows))
             ELSE <<[Treatment |-> r.Treatment, Pending |-> r.Pending[1],
                     Done |-> r.Done[1]]>> \o ScanStatus(Tail(rows))

\* the status query with its UNION ALL total row ordered last, as scanned
StatusQuery(q, filter) ==
    ScanStatus(OrderByTreatment(Stats(q, filter)) \o <<TotalRow(Stats(q, filter))>>)

(***************************************************************************)
(* The shard partitioner.                                                  *)
(***************************************************************************)
RECURSIVE Pow(_, _)
Pow(b, e) == IF e = 0 THEN 1 ELSE b * Pow(b, e - 1)

\* the number of values of the leading digits the partitioner reads (2^64 in
\* the program)
PrefixSpace == Pow(16, PrefixDigits)

\* v in lower-case hex, zero-padded to width digits
RECURSIVE FormatHex(_, _)
FormatHex(v, width) ==
    IF width = 0 THEN <<>>
    ELSE Append(FormatHex(v \div 16, width - 1), HexChar(v % 16))

\* a bound rendered with its low-order digits all f
RenderBound_PadsWithF(v) ==
    FormatHex(v, PrefixDigits) \o [k \in 1..(HashDigits - PrefixDigits) |-> HexChar(15)]

\* a bound of the prefix rendered at the full width of a hash: the low-order
\* digits are zero
RenderBound(v) ==
    FormatHex(v, PrefixDigits) \o [k \in 1..(HashDigits - PrefixDigits) |-> HexChar(0)]

\* calculateShardRange with inclusive ends: a shard ends one below the start
\* of the next
calculateShardRange_InclusiveEnds(shard, totalShards) ==
    [start |-> RenderBound((shard * PrefixSpace) \div totalShards),
     end |-> RenderBound(IF shard = totalShards - 1
                         THEN PrefixSpace - 1
                         ELSE (((shard + 1) * PrefixSpace) \div totalShards) - 1)]

\* calculateShardRange that multiplies a shard size taken from the largest
\* prefix value: shard * ((2^64 - 1) / totalShards)
calculateShardRange_MaxOverCount(shard, totalShards) ==
    [start |-> RenderBound(shard * ((PrefixSpace - 1) \div totalShards)),
     end |-> RenderBound(IF shard = totalShards - 1
                         THEN PrefixSpace - 1
                         ELSE (shard + 1) * ((PrefixSpace - 1) \div totalShards))]

\* calculateShardRange(shard, totalShards): the start and end bound of a shard
calculateShardRange(shard, totalShards) ==
    [start |-> RenderBound((shard * PrefixSpace) \div totalShards),
     end |-> RenderBound(IF shard = totalShards - 1
                         THEN PrefixSpace - 1
                         ELSE ((shard + 1) * PrefixSpace) \div totalShards)]

\* the store's test that a hash is in a shard, without the start bound
InShard_NoStartBound(h, shard, totalShards) ==
    LET range == calculateShardRange(shard, totalShards)
    IN  IF shard = totalShards - 1
        THEN ~TextLess(range.end, h)
        ELSE TextLess(h, range.end)

\* the store's test that a hash is in a shard: text comparison with both
\* bounds, the end bound inclusive for the last shard only
InShard(h, shard, totalShards) ==
    LET range == calculateShardRange(shard, totalShards)
    IN  /\ ~TextLess(h, range.start)
        /\ IF shard = totalShards - 1
           THEN ~TextLess(range.end, h)
           ELSE TextLess(h, range.end)

\* the sharded claim query without the cursor condition
ShardClaimQuery_IgnoresCursor(q, t, cursor, n, shard, totalShards) ==
    LET rows == Limit(OrderByPathHash({r \in ClaimWhere(q, t, EmptyText) :
                                          InShard(r.path_hash, shard, totalShards)}), n)
    IN  [k \in 1..Len(rows) |-> ClaimResult(rows[k])]

\* the claim query with --shard and --total-shards: the rows of the claim
\* query that are in the shard's range
ShardClaimQuery(q, t, cursor, n, shard, totalShards) ==
    LET rows == Limit(OrderByPathHash({r \in ClaimWhere(q, t, cursor) :
                                          InShard(r.path_hash, shard, totalShards)}), n)
    IN  [k \in 1..Len(rows) |-> ClaimResult(rows[k])]

\* every hash pathHash can return
AllHashes == {HexEncodeToString(d) : d \in [1..HashDigits -> 0..15]}

(***************************************************************************)
(* State.                                                                  *)
(***************************************************************************)
VARIABLES
    queue,      \* table queue: a set of rows
    files,      \* the content of each existing file
    now,        \* the wall clock, in seconds
    last,       \* the command that ran last: its arguments and what it printed
    pre,        \* table queue as it was when that command started
    enqueued,   \* (path, treatment) written by an enqueue since the last reset of the treatment
    walk,       \* a worker that pages through claim with a cursor
    probe,      \* a hash looked up in the shard ranges of a shard count
    shards,     \* the workers that claim by shard: what each was given
    ops         \* commands and environment steps so far

vars == <<queue, files, now, last, pre, enqueued, walk, probe, shards, ops>>

\* the inputs the commands are run with: enqueue's input with the line whose
\* write fails (0: none), claim's cursor and batch size, done's result,
\* revisit modifier and elapsed time, reset's --yes and typed answer
EnqueueRuns ==
    {<<"lint", <<"a.txt">>, 0>>,
     <<"lint", <<"", "/w/missing.txt", "/w/a.txt", "/w/a.txt">>, 0>>,
     <<"lint", <<"/w/a.txt", "/w/b.txt", "/w/c.txt">>, 0>>,
     <<"lint", <<"/w/a.txt", "/w/b.txt", "/w/c.txt">>, 2>>,
     <<"other", <<"a.txt">>, 0>>}

DoneKeys ==
    {<<"/w/a.txt", "lint">>, <<"/w/b.txt", "lint">>, <<"/w/c.txt", "lint">>,
     <<"a.txt", "other">>}

DoneArgs ==
    {<<"r1", "", 0>>, <<"", "+1 second", 0>>, <<"r1", "+1 second", 1>>,
     <<"r1", "soon", 0>>}

Cursors == {EmptyText} \cup {pathHash(p) : p \in Paths}

BatchSizes == {-1, 0, 1, 2}

ClaimArgs ==
    {<<EmptyText, 1>>, <<EmptyText, 2>>, <<pathHash("/w/a.txt"), 2>>, <<EmptyText, 0>>}

\* the claims of the shard workers: treatment, cursor and batch size (the
\* number of paths is a batch size no result exceeds)
ShardClaimArgs ==
    {<<"lint", EmptyText, Cardinality(Paths)>>, <<"lint", pathHash("/w/a.txt"), 1>>,
     <<"other", EmptyText, Cardinality(Paths)>>}

\* what is enqueued while the shard workers claim
ShardEnqueueRuns ==
    {<<"lint", <<"/w/a.txt", "/w/b.txt", "/w/c.txt">>, 0>>, <<"lint", <<"a.txt">>, 0>>,
     <<"other", <<"a.txt">>, 0>>}

ResetArgs ==
    {<<"lint", TRUE, "">>, <<"lint", FALSE, "y">>, <<"lint", FALSE, "n">>,
     <<"other", TRUE, "">>, <<"lint", FALSE, "yes">>}

\* the shard flags of a worker: every shard of every count
ShardFlags ==
    {flags \in {Some(shard) : shard \in 0..(MaxShards - 1)}
                   \X {Some(total) : total \in 1..MaxShards} : flags[1][1] < flags[2][1]}

\* other shard flags: none at all, and the malformed pairs: one flag alone,
\* an index that is the count, a negative index, a count of zero
OtherShardFlags ==
    {<<NULL, NULL>>, <<Some(0), NULL>>, <<NULL, Some(2)>>, <<Some(2), Some(2)>>,
     <<Some(-1), Some(2)>>, <<Some(0), Some(0)>>}

\* the claims of the sharded workers, each with (treatment, cursor, n, shard
\* flag, total-shards flag)
ShardRequests ==
    {<<arg[1], arg[2], arg[3], flags[1], flags[2]>> :
        arg \in ShardClaimArgs, flags \in ShardFlags}
        \cup {<<"lint", EmptyText, Cardinality(Paths), flags[1], flags[2]>> :
                 flags \in OtherShardFlags}

\* a command record with every field at its default
NoCommand ==
    [op |-> "none", treatment |-> "", input |-> <<>>, failAt |-> 0, path |-> "",
     cursor |-> EmptyText, n |-> 0, result |-> "", revisit |-> "", yes |-> FALSE,
     response |-> "", goNow |-> 0, sqlNow |-> 0, out |-> <<>>, count |-> 0,
     written |-> {}, exit |-> 0, shard |-> NULL, total |-> NULL, printed |-> NULL,
     seen |-> NULL]

\* a worker that is not walking
NoWalk ==
    [active |-> FALSE, finished |-> FALSE, disturbed |-> FALSE, treatment |-> "",
     n |-> 0, cursor |-> EmptyText, got |-> <<>>, calls |-> 0,
     k0 |-> 0, grown |-> FALSE, steady |-> {}, shard |-> NULL, total |-> NULL]

\* no lookup made
NoProbe == [made |-> FALSE, total |-> 0, hash |-> EmptyText, owners |-> {},
            ranges |-> <<>>]

\* no worker has claimed by shard: no shard count chosen, nothing given, no
\* shard swept, no worker loop running (n its batch size, pc the place of
\* each worker in its loop, held the batch each worker is working through)
NoShards == [total |-> 0, given |-> {}, sweep |-> <<>>, n |-> 0, pc |-> <<>>,
             held |-> <<>>]

Init ==
    /\ queue = {}
    /\ files = [p \in Paths |-> "v1"]
    /\ now = 0
    /\ last = NoCommand
    /\ pre = {}
    /\ enqueued = {}
    /\ walk = NoWalk
    /\ probe = NoProbe
    /\ shards = NoShards
    /\ ops = 0

\* the hashes of the rows of table q that are pending under treatment t
PendingHashes(q, t) == {r.path_hash : r \in {x \in q : x.treatment = t /\ x.done_at = NULL}}

\* a walk in progress sees the table change under it: disturbed when the
\* table changed at all, grown when a row became pending under the walk's
\* treatment; steady keeps the hashes pending at every moment of the walk
WalkAfter(q2) ==
    IF walk.active
    THEN [walk EXCEPT
            !.disturbed = @ \/ q2 # queue,
            !.grown = @ \/ ~(PendingHashes(q2, walk.treatment)
                                \subseteq PendingHashes(queue, walk.treatment)),
            !.steady = IF walk.finished THEN @
                       ELSE @ \cap PendingHashes(q2, walk.treatment)]
    ELSE walk

\* a behaviour holds at most MaxOps commands and environment steps
Budget == ops < MaxOps

\* every command: it starts from the current table and is counted
Ran(cmd) ==
    /\ ops' = ops + 1
    /\ pre' = queue
    /\ last' = cmd
    /\ probe' = probe
    /\ shards' = shards

(***************************************************************************)
(* The commands.                                                           *)
(***************************************************************************)
\* next enqueue --treatment=t < input
EnqueueCmd(t, input, failAt) ==
    LET end == doEnqueue(queue, files, t, input, failAt)
    IN  /\ Budget
        /\ queue' = end.queue
        /\ enqueued' = enqueued \cup end.written
        /\ walk' = WalkAfter(end.queue)
        /\ Ran([NoCommand EXCEPT !.op = "enqueue", !.treatment = t, !.input = input,
                                 !.failAt = failAt, !.count = end.count,
                                 !.written = end.written,
                                 !.printed = IF end.err THEN NULL ELSE Some(end.count),
                                 !.exit = IF end.err THEN 1 ELSE 0])
        /\ UNCHANGED <<files, now>>

\* Claim that marks the rows it returns as taken, in their result column
Claim_MarksRows(t, cursor, n) ==
    /\ Budget
    /\ Ran([NoCommand EXCEPT !.op = "claim", !.treatment = t, !.cursor = cursor,
                             !.n = n, !.out = ClaimQuery(queue, t, cursor, n)])
    /\ queue' = {IF \E k \in DOMAIN ClaimQuery(queue, t, cursor, n) :
                       /\ ClaimQuery(queue, t, cursor, n)[k].PathHash = r.path_hash
                       /\ r.treatment = t
                    THEN [r EXCEPT !.result = Some("claimed")]
                    ELSE r : r \in queue}
    /\ UNCHANGED <<files, now, enqueued>>

\* claim that locks what it returns by completing it
Claim_CompletesRows(t, cursor, n) ==
    /\ Budget
    /\ Ran([NoCommand EXCEPT !.op = "claim", !.treatment = t, !.cursor = cursor,
                             !.n = n, !.out = ClaimQuery(queue, t, cursor, n)])
    /\ queue' = {IF \E k \in DOMAIN ClaimQuery(queue, t, cursor, n) :
                       /\ ClaimQuery(queue, t, cursor, n)[k].PathHash = r.path_hash
                       /\ r.treatment = t
                    THEN [r EXCEPT !.done_at = Some(now)]
                    ELSE r : r \in queue}
    /\ UNCHANGED <<files, now, enqueued>>

\* the claim command proper: the query and its printed rows
Claim(t, cursor, n) ==
    /\ Budget
    /\ Ran([NoCommand EXCEPT !.op = "claim", !.treatment = t, !.cursor = cursor,
                             !.n = n, !.out = ClaimQuery(queue, t, cursor, n)])
    /\ UNCHANGED <<queue, files, now, enqueued>>

\* next claim --treatment=t --cursor=cursor --n=n, by any process
ClaimCmd(t, cursor, n) ==
    /\ Claim(t, cursor, n)
    /\ UNCHANGED walk

\* next claim --treatment=t --cursor=cursor --n=n --shard=shard
\* --total-shards=total, by the worker of that shard; the workers share one
\* shard count.  A claim from the empty cursor with a batch size that leaves
\* no pending row out is the shard's part of a sweep of the table.
ShardClaimCmd(t, cursor, n, shard, total) ==
    LET out == ShardClaimQuery(queue, t, cursor, n, shard, total)
        whole == /\ cursor = EmptyText
                 /\ n >= Cardinality({r \in queue : r.treatment = t /\ r.done_at = NULL})
    IN  /\ Budget
        /\ shards.total \in {0, total}
        /\ shards' = [shards EXCEPT
                         !.total = total,
                         !.given = shards.given \cup
                                      {<<shard, out[k].PathHash, t>> : k \in DOMAIN out},
                         !.sweep = IF whole
                                   THEN (shard :> [table |-> queue, treatment |-> t,
                                                   out |-> {out[k].PathHash : k \in DOMAIN out}])
                                            @@ shards.sweep
                                   ELSE shards.sweep]
        /\ last' = [NoCommand EXCEPT !.op = "claim", !.treatment = t, !.cursor = cursor,
                                     !.n = n, !.out = out, !.shard = Some(shard),
                                     !.total = Some(total)]
        /\ ops' = ops + 1
        /\ pre' = queue
        /\ UNCHANGED <<queue, files, now, enqueued, walk, probe>>

\* shard parameters that let the shard index equal the shard count
ShardArgsValid_AllowsEqual(shard, total) ==
    \/ shard = NULL /\ total = NULL
    \/ /\ shard # NULL /\ total # NULL
       /\ 0 <= shard[1] /\ shard[1] <= total[1] /\ 0 < total[1]

\* --shard and --total-shards are supplied together or not at all, and
\* 0 <= shard < total-shards
ShardArgsValid(shard, total) ==
    \/ shard = NULL /\ total = NULL
    \/ /\ shard # NULL /\ total # NULL
       /\ 0 <= shard[1] /\ shard[1] < total[1]

\* a claim ended by a validation error: nothing is printed, nothing is read
ClaimRejected(t, cursor, n, shard, total) ==
    /\ Budget
    /\ Ran([NoCommand EXCEPT !.op = "claim", !.treatment = t, !.cursor = cursor,
                             !.n = n, !.shard = shard, !.total = total, !.exit = 1])
    /\ UNCHANGED <<queue, files, now, enqueued, walk>>

\* next claim with its shard flags as given on the command line (NULL: flag
\* not given): the flags are validated before the query runs
ClaimRequest(t, cursor, n, shard, total) ==
    IF ~ShardArgsValid(shard, total) THEN ClaimRejected(t, cursor, n, shard, total)
    ELSE IF shard = NULL THEN ClaimCmd(t, cursor, n)
    ELSE ShardClaimCmd(t, cursor, n, shard[1], total[1])

\* the worker loop resuming after the first item of its batch
WalkOn_CursorAtFirst(w, batch) ==
    [w EXCEPT !.active = TRUE,
              !.finished = (batch = <<>>),
              !.got = w.got \o batch,
              !.calls = w.calls + 1,
              !.cursor = IF batch = <<>> THEN w.cursor ELSE batch[1].PathHash]

\* the worker loop: the batch just claimed is appended, the cursor moves to
\* the hash of its last item, an empty batch ends the loop
WalkOn(w, batch) ==
    [w EXCEPT !.active = TRUE,
              !.finished = (batch = <<>>),
              !.got = w.got \o batch,
              !.calls = w.calls + 1,
              !.cursor = IF batch = <<>> THEN w.cursor ELSE batch[Len(batch)].PathHash]

\* the worker starts its loop: CURSOR="" and the first claim
WalkStart(t, n) ==
    /\ Budget
    /\ ~walk.active \/ walk.finished
    /\ Claim(t, EmptyText, n)
    /\ walk' = WalkOn([NoWalk EXCEPT !.treatment = t, !.n = n,
                                      !.k0 = Cardinality(PendingHashes(queue, t)),
                                      !.steady = PendingHashes(queue, t)],
                      ClaimQuery(queue, t, EmptyText, n))

\* the worker's next claim, from its cursor
WalkNext ==
    /\ Budget
    /\ walk.active /\ ~walk.finished
    /\ Claim(walk.treatment, walk.cursor, walk.n)
    /\ walk' = WalkOn(walk, ClaimQuery(queue, walk.treatment, walk.cursor, walk.n))

\* next done --path=path --treatment=t --result=result --revisit=revisit;
\* elapsed is the time between time.Now() and the statement's own clock
DoneCmd(path, t, result, revisit, elapsed) ==
    LET goNow == now
        sqlNow == now + elapsed
        nextAt == IF revisit = "" THEN NULL ELSE Datetime(sqlNow, revisit)
        q2 == DoneUpdate(queue, goNow, result, nextAt, pathHash(Abs(path)), t)
    IN  /\ Budget
        /\ sqlNow <= MaxTime
        /\ queue' = q2
        /\ now' = sqlNow
        /\ walk' = WalkAfter(q2)
        /\ Ran([NoCommand EXCEPT !.op = "done", !.treatment = t, !.path = Abs(path),
                                 !.result = result, !.revisit = revisit,
                                 !.goNow = goNow, !.sqlNow = sqlNow])
        /\ UNCHANGED <<files, enqueued>>

\* next status [--treatment=filter]
StatusCmd(filter) ==
    /\ Budget
    /\ Ran([NoCommand EXCEPT !.op = "status", !.treatment = filter,
                             !.out = StatusQuery(queue, filter)])
    /\ UNCHANGED <<queue, files, now, enqueued, walk>>

\* reset that goes on unless the answer is n
ResetCmd_UnlessNo(t, yes, response) ==
    LET go == yes \/ response # "n"
        q2 == IF go THEN ResetDelete(queue, t) ELSE queue
    IN  /\ Budget
        /\ queue' = q2
        /\ enqueued' = IF go THEN {e \in enqueued : e[2] # t} ELSE enqueued
        /\ walk' = WalkAfter(q2)
        /\ Ran([NoCommand EXCEPT !.op = "reset", !.treatment = t, !.yes = yes,
                                 !.response = response,
                                 !.printed = IF go THEN Some(Cardinality(queue) - Cardinality(q2))
                                             ELSE NULL,
                                 !.count = Cardinality(queue) - Cardinality(q2)])
        /\ UNCHANGED <<files, now>>

\* next reset --treatment=t [--yes], with the answer typed at the prompt
ResetCmd(t, yes, response) ==
    LET go == yes \/ response = "y" \/ response = "Y"
        q2 == IF go THEN ResetDelete(queue, t) ELSE queue
    IN  /\ Budget
        /\ queue' = q2
        /\ enqueued' = IF go THEN {e \in enqueued : e[2] # t} ELSE enqueued
        /\ walk' = WalkAfter(q2)
        /\ Ran([NoCommand EXCEPT !.op = "reset", !.treatment = t, !.yes = yes,
                                 !.response = response,
                                 !.printed = IF go THEN Some(Cardinality(queue) - Cardinality(q2))
                                             ELSE NULL,
                                 !.count = Cardinality(queue) - Cardinality(q2)])
        /\ UNCHANGED <<files, now>>

(***************************************************************************)
(* The environment.                                                        *)
(***************************************************************************)
\* a file gets new content
WriteFile(p, c) ==
    /\ Budget
    /\ p \in DOMAIN files
    /\ files[p] # c
    /\ files' = [files EXCEPT ![p] = c]
    /\ Ran([NoCommand EXCEPT !.op = "write", !.path = p])
    /\ UNCHANGED <<queue, now, enqueued, walk>>

\* a file vanishes
RemoveFile(p) ==
    /\ Budget
    /\ p \in DOMAIN files
    /\ files' = [f \in DOMAIN files \ {p} |-> files[f]]
    /\ Ran([NoCommand EXCEPT !.op = "remove", !.path = p])
    /\ UNCHANGED <<queue, now, enqueued, walk>>

\* d seconds pass
Tick(d) ==
    /\ Budget
    /\ now + d <= MaxTime
    /\ now' = now + d
    /\ Ran([NoCommand EXCEPT !.op = "tick"])
    /\ UNCHANGED <<queue, files, enqueued, walk>>

\* the ledger commands and the environment
Next ==
    \/ \E run \in EnqueueRuns : EnqueueCmd(run[1], run[2], run[3])
    \/ \E t \in Treatments, arg \in ClaimArgs : ClaimCmd(t, arg[1], arg[2])
    \/ \E key \in DoneKeys, arg \in DoneArgs :
          DoneCmd(key[1], key[2], arg[1], arg[2], arg[3])
    \/ \E filter \in {"", "lint"} : StatusCmd(filter)
    \/ \E arg \in ResetArgs : ResetCmd(arg[1], arg[2], arg[3])
    \/ \E p \in Paths, c \in Contents : WriteFile(p, c)
    \/ \E p \in Paths : RemoveFile(p)
    \/ \E d \in 1..MaxTime : Tick(d)

Spec == Init /\ [][Next]_vars

\* claiming: a ledger that is filled and completed while any process claims
\* and one worker pages through it
NextClaim ==
    \/ \E run \in EnqueueRuns : EnqueueCmd(run[1], run[2], run[3])
    \/ \E key \in DoneKeys : DoneCmd(key[1], key[2], "r1", "", 0)
    \/ \E t \in Treatments, cursor \in Cursors, n \in BatchSizes : ClaimCmd(t, cursor, n)
    \/ \E t \in Treatments, n \in {1, 2} : WalkStart(t, n)
    \/ WalkNext

SpecClaim == Init /\ [][NextClaim]_vars

\* claiming by shard: workers with one shard count and their own shard
\* indices claim while the ledger is filled and completed
NextSharded ==
    \/ \E run \in ShardEnqueueRuns : EnqueueCmd(run[1], run[2], run[3])
    \/ \E key \in DoneKeys : DoneCmd(key[1], key[2], "r1", "", 0)
    \/ \E req \in ShardRequests : ClaimRequest(req[1], req[2], req[3], req[4], req[5])

SpecSharded == Init /\ [][NextSharded]_vars

\* the treatment of the worker loops
WorkerTreatment == "lint"

\* the sharded claim command proper: the query and its printed rows
ShardClaim(t, cursor, n, shard, total) ==
    /\ Budget
    /\ Ran([NoCommand EXCEPT !.op = "claim", !.treatment = t, !.cursor = cursor,
                             !.n = n, !.shard = Some(shard), !.total = Some(total),
                             !.out = ShardClaimQuery(queue, t, cursor, n, shard, total)])
    /\ UNCHANGED <<queue, files, now, enqueued>>

\* next claim --treatment=t --cursor=cursor --n=n --shard=shard
\* --total-shards=total, by any process
ShardCursorClaim(t, cursor, n, shard, total) ==
    /\ ShardClaim(t, cursor, n, shard, total)
    /\ UNCHANGED walk

\* a shard's worker starts a cursor loop: CURSOR="" and the first claim
ShardWalkStart(t, n, shard, total) ==
    /\ ~walk.active \/ walk.finished
    /\ ShardClaim(t, EmptyText, n, shard, total)
    /\ walk' = WalkOn([NoWalk EXCEPT !.treatment = t, !.n = n, !.shard = Some(shard),
                                      !.total = Some(total)],
                      ShardClaimQuery(queue, t, EmptyText, n, shard, total))

\* the shard worker's next claim, from its cursor
ShardWalkNext ==
    /\ walk.active /\ ~walk.finished /\ walk.shard # NULL
    /\ ShardClaim(walk.treatment, walk.cursor, walk.n, walk.shard[1], walk.total[1])
    /\ walk' = WalkOn(walk, ShardClaimQuery(queue, walk.treatment, walk.cursor, walk.n,
                                            walk.shard[1], walk.total[1]))

\* the batch sizes of the shard workers' cursor loops
ShardWalkSizes == {1, 2}

\* the shards walked: the only shard of one, both shards of two, and the last
\* shard of the largest count
ShardWalkFlags == {<<0, 1>>, <<0, 2>>, <<1, 2>>, <<MaxShards - 1, MaxShards>>}

\* claiming by shard and cursor: a ledger that is filled and completed while
\* any process claims by shard from any cursor and one shard worker pages
\* through its shard
NextShardWalk ==
    \/ \E run \in ShardEnqueueRuns : EnqueueCmd(run[1], run[2], run[3])
    \/ \E key \in DoneKeys : DoneCmd(key[1], key[2], "r1", "", 0)
    \/ \E cursor \in Cursors, flags \in ShardWalkFlags :
           ShardCursorClaim(WorkerTreatment, cursor, Cardinality(Paths), flags[1], flags[2])
    \/ \E n \in ShardWalkSizes, flags \in ShardWalkFlags :
           ShardWalkStart(WorkerTreatment, n, flags[1], flags[2])
    \/ ShardWalkNext

SpecShardWalk == Init /\ [][NextShardWalk]_vars

\* the batch sizes of the worker loops
WorkerBatchSizes == {1, 2}

\* what is enqueued while the worker loops run
WorkerEnqueueRuns == {<<WorkerTreatment, <<"/w/a.txt", "/w/b.txt", "/w/c.txt">>, 0>>}

\* the worker loops are started: one worker per shard of a shard count, each
\* at the claim of its loop
WorkersStart(total, n) ==
    /\ shards.total = 0
    /\ shards' = [shards EXCEPT !.total = total, !.n = n,
                                !.pc = [i \in 0..(total - 1) |-> "claim"],
                                !.held = [i \in 0..(total - 1) |-> <<>>]]
    /\ UNCHANGED <<queue, files, now, last, pre, enqueued, walk, probe, ops>>

\* worker i claims from its shard: next claim --treatment=lint --shard=i
\* --total-shards=T --n=n; it keeps what it was given, with the content the
\* row recorded then and the content the file had then (what it is about
\* to process), and goes to sleep when it was given nothing (the
\* record of the last command is kept for the commands that change the table)
WorkerClaim(i) ==
    LET out == ShardClaimQuery(queue, WorkerTreatment, EmptyText, shards.n, i, shards.total)
        batch == [k \in DOMAIN out |->
                    [Path |-> out[k].Path, PathHash |-> out[k].PathHash,
                     seen |-> [row |-> (CHOOSE r \in queue :
                                           /\ r.path_hash = out[k].PathHash
                                           /\ r.treatment = WorkerTreatment).content_hash,
                               file |-> fileHash(files, out[k].Path)]]]
    IN  /\ i \in DOMAIN shards.pc
        /\ shards.pc[i] = "claim"
        /\ shards' = [shards EXCEPT
                         !.held[i] = batch,
                         !.pc[i] = IF out = <<>> THEN "sleep" ELSE "done"]
        /\ UNCHANGED <<queue, files, now, last, pre, enqueued, walk, probe, ops>>

\* worker i completes the next item of its batch: next done --path=...
\* --treatment=lint --result=...; after the last item it goes to sleep
WorkerDone(i) ==
    /\ i \in DOMAIN shards.pc
    /\ shards.pc[i] = "done"
    /\ LET item == Head(shards.held[i])
           q2 == DoneUpdate(queue, now, "r1", NULL, pathHash(Abs(item.Path)),
                            WorkerTreatment)
       IN  /\ queue' = q2
           /\ walk' = WalkAfter(q2)
           /\ shards' = [shards EXCEPT
                            !.held[i] = Tail(shards.held[i]),
                            !.pc[i] = IF Tail(shards.held[i]) = <<>> THEN "sleep" ELSE "done"]
           /\ last' = [NoCommand EXCEPT !.op = "done", !.treatment = WorkerTreatment,
                                        !.path = Abs(item.Path), !.result = "r1",
                                        !.goNow = now, !.sqlNow = now,
                                        !.seen = Some(item.seen), !.shard = Some(i),
                                        !.total = Some(shards.total)]
    /\ pre' = queue
    /\ UNCHANGED <<files, now, enqueued, probe, ops>>

\* worker i wakes up: sleep 1, then the loop starts over
WorkerSleep(i) ==
    /\ i \in DOMAIN shards.pc
    /\ shards.pc[i] = "sleep"
    /\ shards' = [shards EXCEPT !.pc[i] = "claim"]
    /\ UNCHANGED <<queue, files, now, last, pre, enqueued, walk, probe, ops>>

\* a step of worker i
WorkerStep(i) == WorkerClaim(i) \/ WorkerDone(i) \/ WorkerSleep(i)

\* the worker loops of the shards run while files are enqueued; the enqueues
\* are finitely many, the workers never stop
NextDrain ==
    \/ \E run \in WorkerEnqueueRuns : EnqueueCmd(run[1], run[2], run[3])
    \/ \E total \in 1..MaxWorkers, n \in WorkerBatchSizes : WorkersStart(total, n)
    \/ \E i \in 0..(MaxWorkers - 1) : WorkerClaim(i)
    \/ \E i \in 0..(MaxWorkers - 1) : WorkerDone(i)
    \/ \E i \in 0..(MaxWorkers - 1) : WorkerSleep(i)

\* every worker keeps taking the steps of its loop
SpecDrain ==
    /\ Init
    /\ [][NextDrain]_vars
    /\ \A i \in 0..(MaxWorkers - 1) : WF_vars(WorkerStep(i))

\* the worker loops run while files change and are enqueued again
NextWorkers ==
    \/ \E run \in WorkerEnqueueRuns : EnqueueCmd(run[1], run[2], run[3])
    \/ \E c \in Contents : WriteFile("/w/a.txt", c)
    \/ \E total \in 1..MaxWorkers, n \in WorkerBatchSizes : WorkersStart(total, n)
    \/ \E i \in 0..(MaxWorkers - 1) : WorkerClaim(i)
    \/ \E i \in 0..(MaxWorkers - 1) : WorkerDone(i)
    \/ \E i \in 0..(MaxWorkers - 1) : WorkerSleep(i)

SpecWorkers == Init /\ [][NextWorkers]_vars

\* the shard partitioner alone: a hash is looked up in the ranges of a count
ShardLookup(total, h) ==
    /\ ~probe.made
    /\ probe' = [made |-> TRUE, total |-> total, hash |-> h,
                 owners |-> {i \in 0..(total - 1) : InShard(h, i, total)},
                 ranges |-> [i \in 0..(total - 1) |-> calculateShardRange(i, total)]]
    /\ UNCHANGED <<queue, files, now, last, pre, enqueued, walk, shards, ops>>

NextShard == \E total \in 1..MaxShards, h \in AllHashes : ShardLookup(total, h)

SpecShard == Init /\ [][NextShard]_vars

\* the lowest and the highest hash of every prefix value
EdgeHashes ==
    {h \in AllHashes :
        \E c \in {HexChar(0), HexChar(15)} :
            \A k \in (PrefixDigits + 1)..HashDigits : h[k] = c}

\* the partitioner at the shard counts of the workers, for every hash, and at
\* the largest count that leaves no shard without a prefix value (2^64 in the
\* program), where every prefix value is a bound, for the hashes at the edges
NextBounds ==
    \/ \E total \in 1..MaxShards, h \in AllHashes : ShardLookup(total, h)
    \/ \E h \in EdgeHashes : ShardLookup(PrefixSpace, h)

SpecBounds == Init /\ [][NextBounds]_vars

(***************************************************************************)
(* The claims.  last is the command that ran last, pre the table it        *)
(* started from, queue the table it left.                                  *)
(***************************************************************************)
\* the rows of table q with the key of path and treatment t
RowsOf(q, path, t) == {r \in q : r.path_hash = pathHash(path) /\ r.treatment = t}

\* the content hash an enqueue computes for path
Digest(path) == fileHash(files, path).hash

C2_Reactivation ==
    last.op = "enqueue" =>
        \A e \in last.written : \A r \in RowsOf(pre, e[1], e[2]) :
            (r.done_at # NULL /\ r.content_hash # Digest(e[1])) =>
                /\ RowsOf(queue, e[1], e[2]) =
                      {[r EXCEPT !.content_hash = Digest(e[1]), !.done_at = NULL,
                                 !.result = NULL, !.next_at = NULL]}
                /\ \E k \in DOMAIN ClaimQuery(queue, e[2], EmptyText, Cardinality(queue)) :
                      ClaimQuery(queue, e[2], EmptyText, Cardinality(queue))[k].Path = e[1]

\* C2 witness: an enqueue wrote a key whose row was completed with a result
\* and held another content hash
C2_Witness ==
    /\ last.op = "enqueue"
    /\ \E e \in last.written : \E r \in RowsOf(pre, e[1], e[2]) :
          r.done_at # NULL /\ r.result = Some("r1") /\ r.content_hash # Digest(e[1])

\* C3: an enqueue of a key whose row holds the content hash just computed
\* leaves the row as it was, pending or completed, however often the key
\* occurs in the input
C3_NoChangeIdempotence ==
    last.op = "enqueue" =>
        \A e \in last.written : \A r \in RowsOf(pre, e[1], e[2]) :
            r.content_hash = Digest(e[1]) => RowsOf(queue, e[1], e[2]) = {r}

\* C3 witness: an enqueue wrote, twice in one input, a key whose row was
\* completed with a revisit time and held the same content hash
C3_Witness ==
    /\ last.op = "enqueue" /\ last.count = 2
    /\ \E e \in last.written : \E r \in RowsOf(pre, e[1], e[2]) :
          r.done_at # NULL /\ r.next_at # NULL /\ r.content_hash = Digest(e[1])

\* C4: an enqueue of a readable path whose key has no row inserts one row for
\* it: pending, with the absolute path and the content hash just computed
C4_FirstObservation ==
    last.op = "enqueue" =>
        /\ \A e \in last.written :
              RowsOf(pre, e[1], e[2]) = {} =>
                  /\ e[1] \in Paths
                  /\ RowsOf(queue, e[1], e[2]) =
                        {[path |-> e[1], path_hash |-> pathHash(e[1]),
                          content_hash |-> Digest(e[1]), treatment |-> e[2],
                          done_at |-> NULL, result |-> NULL, next_at |-> NULL]}
        /\ Cardinality(queue) = Cardinality(pre)
              + Cardinality({e \in last.written : RowsOf(pre, e[1], e[2]) = {}})

\* C4 witness: an enqueue given a relative path inserted a row beside the
\* rows of the table
C4_Witness ==
    /\ last.op = "enqueue" /\ last.input = <<"a.txt">>
    /\ pre # {}
    /\ \E e \in last.written : RowsOf(pre, e[1], e[2]) = {}

\* the rows of table q a claim of treatment t after cursor may return
Eligible(q, t, cursor) ==
    {r \in q : r.treatment = t /\ r.done_at = NULL /\ TextLess(cursor, r.path_hash)}

\* the smaller of two numbers
Min(a, b) == IF a <= b THEN a ELSE b

\* C5: a claim with a batch size n >= 1 returns min(n, k) of the k pending
\* rows of the treatment whose hash is above the cursor, in strictly
\* ascending hash order, and every such row it does not return has a larger
\* hash than all it returns; from the empty cursor it starts at the smallest
\* pending hash of the treatment
C5_ClaimSelection ==
    (last.op = "claim" /\ last.n >= 1) =>
        LET out == last.out
            rows == Eligible(pre, last.treatment, last.cursor)
        IN  /\ Len(out) = Min(last.n, Cardinality(rows))
            /\ \A k \in DOMAIN out :
                  \E r \in rows : r.path = out[k].Path /\ r.path_hash = out[k].PathHash
            /\ \A k \in DOMAIN out :
                  k < Len(out) => TextLess(out[k].PathHash, out[k + 1].PathHash)
            /\ \A r \in rows :
                  \/ \E k \in DOMAIN out : out[k].PathHash = r.path_hash
                  \/ \A k \in DOMAIN out : TextLess(out[k].PathHash, r.path_hash)
            /\ \A k \in DOMAIN out : \A r \in pre :
                  (r.path_hash = out[k].PathHash /\ r.treatment = last.treatment) =>
                      /\ r.done_at = NULL
                      /\ r.path_hash # last.cursor
            /\ (last.cursor = EmptyText /\ out # <<>>) =>
                  \A r \in pre :
                      (r.treatment = last.treatment /\ r.done_at = NULL) =>
                          ~TextLess(r.path_hash, out[1].PathHash)

\* C5 witness: a claim from the hash of a pending row returned one row and
\* left out a completed row of the treatment above the cursor
C5_Witness ==
    /\ last.op = "claim" /\ last.n = 2 /\ Len(last.out) = 1
    /\ \E r \in pre : r.treatment = last.treatment /\ r.done_at = NULL
                        /\ r.path_hash = last.cursor
    /\ \E r \in pre : r.treatment = last.treatment /\ r.done_at # NULL
                        /\ TextLess(last.cursor, r.path_hash)

\* the pending rows of treatment t
Pending(q, t) == {r \in q : r.treatment = t /\ r.done_at = NULL}

\* C6: a walk that ended with an empty batch, over a table that did not
\* change since the walk began, returned every pending row of the treatment
\* once, in ascending hash order
C6_CursorWalkExact ==
    (walk.finished /\ ~walk.disturbed) =>
        /\ Len(walk.got) = Cardinality(Pending(queue, walk.treatment))
        /\ \A r \in Pending(queue, walk.treatment) :
              \E k \in DOMAIN walk.got :
                  walk.got[k].PathHash = r.path_hash /\ walk.got[k].Path = r.path
        /\ \A k \in DOMAIN walk.got :
              k < Len(walk.got) =>
                  TextLess(walk.got[k].PathHash, walk.got[k + 1].PathHash)

\* C6 witness: a walk with batch size 2 ended over an unchanged table after
\* returning three rows
C6_Witness ==
    /\ walk.finished /\ ~walk.disturbed
    /\ walk.n = 2 /\ walk.calls = 3 /\ Len(walk.got) = 3

\* C7: a claim leaves the table as it found it
C7_ClaimReadOnly == last.op = "claim" => queue = pre

\* C7 witness: a claim returned two rows, which are still pending
C7_Witness ==
    /\ last.op = "claim" /\ Len(last.out) = 2
    /\ \A k \in DOMAIN last.out :
          \E r \in queue : r.path_hash = last.out[k].PathHash
                            /\ r.treatment = last.treatment /\ r.done_at = NULL

\* the seconds of a revisit modifier that is a duration
RevisitSeconds(revisit) == IF revisit = "+1 second" THEN 1 ELSE 0

\* C8: a done on an existing row sets done_at to the instant the command
\* read, result to the value given, and next_at to done_at plus the revisit
\* duration if one was given and to NULL if none was; the rest of the row
\* stays
C8_CompletionEffect ==
    (last.op = "done" /\ last.revisit \in {"", "+1 second"}) =>
        \A r \in RowsOf(pre, last.path, last.treatment) :
            RowsOf(queue, last.path, last.treatment) =
                {[r EXCEPT !.done_at = Some(last.goNow),
                           !.result = Some(last.result),
                           !.next_at = IF last.revisit = ""
                                       THEN NULL
                                       ELSE Some(last.goNow + RevisitSeconds(last.revisit))]}

\* C9: when a row that was pending is completed, the command was a done for
\* the key of that row
C9_OnlyDoneCompletes ==
    \A r \in pre : \A r2 \in queue :
        (/\ r.path_hash = r2.path_hash /\ r.treatment = r2.treatment
         /\ r.done_at = NULL /\ r2.done_at # NULL) =>
            /\ last.op = "done"
            /\ pathHash(last.path) = r.path_hash
            /\ last.treatment = r.treatment

\* C9 witness: a done completed a pending row while the same path has a
\* pending row under another treatment
C9_Witness ==
    /\ last.op = "done"
    /\ \E r \in RowsOf(pre, last.path, last.treatment) : r.done_at = NULL
    /\ \E r \in RowsOf(queue, last.path, last.treatment) : r.done_at # NULL
    /\ \E r \in queue : r.path = last.path /\ r.treatment # last.treatment
                         /\ r.done_at = NULL

\* C10: every hash lies in the range of exactly one shard of every shard count
C10_ShardPartition == probe.made => Cardinality(probe.owners) = 1

\* the smallest and the largest hash
ZeroHash == [k \in 1..HashDigits |-> HexChar(0)]
MaxHash == [k \in 1..HashDigits |-> HexChar(15)]

\* C11: shard 0 starts at the all-zero hash, and every later shard starts at
\* the end bound of the shard before it
C11_ShardContiguity ==
    probe.made =>
        /\ probe.ranges[0].start = ZeroHash
        /\ \A i \in 1..(probe.total - 1) :
              probe.ranges[i].start = probe.ranges[i - 1].end

\* C11 witness: the ranges of the largest shard count were computed, and the
\* second shard starts above the all-zero hash where the first ends
C11_Witness ==
    /\ probe.made /\ probe.total = MaxShards
    /\ probe.ranges[1].start = probe.ranges[0].end
    /\ TextLess(ZeroHash, probe.ranges[1].start)

\* C12: the last shard ends at the all-f hash, and the largest hash is in the
\* last shard
C12_LastShardBound ==
    probe.made =>
        /\ probe.ranges[probe.total - 1].end = MaxHash
        /\ InShard(MaxHash, probe.total - 1, probe.total)

\* C13: when every shard of the shard count was claimed once from the empty
\* cursor with a batch size that leaves nothing out, over the table as it
\* is, every pending row of the treatment is in the result of exactly one
\* shard
C13_ShardClaimCompleteness ==
    (/\ shards.total > 0
     /\ DOMAIN shards.sweep = 0..(shards.total - 1)
     /\ \A i \in DOMAIN shards.sweep :
           /\ shards.sweep[i].table = queue
           /\ shards.sweep[i].treatment = shards.sweep[0].treatment) =>
        \A r \in Pending(queue, shards.sweep[0].treatment) :
            Cardinality({i \in DOMAIN shards.sweep :
                            r.path_hash \in shards.sweep[i].out}) = 1

\* C14: no row is ever given to the workers of two different shards
C14_ShardWorkersDisjoint ==
    \A g1 \in shards.given : \A g2 \in shards.given :
        (g1[2] = g2[2] /\ g1[3] = g2[3]) => g1[1] = g2[1]

\* C14 witness: the workers of two shards were each given a row, with a done
\* between their claims
C14_Witness ==
    /\ \E g1 \in shards.given : \E g2 \in shards.given : g1[1] # g2[1]
    /\ \E r \in queue : r.done_at # NULL
    /\ last.op = "claim" /\ last.shard # NULL /\ last.out # <<>>

C17_ResetScope ==
    (last.op = "reset" /\ (last.yes \/ last.response \in {"y", "Y"})) =>
        /\ queue = {r \in pre : r.treatment # last.treatment}
        /\ last.count = Cardinality({r \in pre : r.treatment = last.treatment})

\* C17 witness: a reset removed the rows of its treatment and left a row of
\* another treatment
C17_Witness ==
    /\ last.op = "reset" /\ last.count >= 2
    /\ queue # {}
    /\ \A r \in queue : r.treatment # last.treatment

\* C18: a claim returns no completed row, whether or not the row carries a
\* revisit time that has passed; and when a completed row is pending after a
\* command, the command was an enqueue that wrote the row's key and found
\* another content hash
C18_RevisitNotEnforced ==
    /\ last.op = "claim" =>
          \A r \in pre : \A k \in DOMAIN last.out :
              (r.treatment = last.treatment /\ r.path_hash = last.out[k].PathHash) =>
                  r.done_at = NULL
    /\ \A r \in pre : \A r2 \in queue :
          (/\ r.path_hash = r2.path_hash /\ r.treatment = r2.treatment
           /\ r.done_at # NULL /\ r2.done_at = NULL) =>
              /\ last.op = "enqueue"
              /\ <<r.path, r.treatment>> \in last.written
              /\ r2.content_hash # r.content_hash

\* C18 witness: a claim from the empty cursor returned rows and left out a
\* completed row of the treatment whose revisit time has passed
C18_Witness ==
    /\ last.op = "claim" /\ last.cursor = EmptyText /\ last.out # <<>>
    /\ \E r \in pre :
          /\ r.treatment = last.treatment /\ r.done_at # NULL
          /\ r.next_at # NULL /\ r.next_at[1] < now
          /\ \A k \in DOMAIN last.out : last.out[k].PathHash # r.path_hash

\* C19: a claim from the empty cursor whose batch is not full returned every
\* row of the treatment whose revisit time has passed
C19_PeriodicRecheck ==
    (/\ last.op = "claim" /\ last.shard = NULL /\ last.cursor = EmptyText
     /\ Len(last.out) < last.n) =>
        \A r \in pre :
            (/\ r.treatment = last.treatment
             /\ r.next_at # NULL /\ r.next_at[1] < now) =>
                \E k \in DOMAIN last.out : last.out[k].PathHash = r.path_hash

\* the lines of the input of the last enqueue that name a readable file
Readable(input) ==
    {k \in DOMAIN input : input[k] # "" /\ Abs(input[k]) \in DOMAIN files}

\* C20: an enqueue that ended without error counted the lines that name a
\* readable file, reconciled each of them, and left every other row, the
\* rows of unreadable locations included, as it was, creating none
C20_EnqueueSkipsFailures ==
    (last.op = "enqueue" /\ last.exit = 0) =>
        LET good == Readable(last.input)
            keys == {pathHash(Abs(last.input[k])) : k \in good}
        IN  /\ last.count = Cardinality(good)
            /\ \A k \in good :
                  \E r \in RowsOf(queue, Abs(last.input[k]), last.treatment) :
                      /\ r.path = Abs(last.input[k])
                      /\ r.content_hash = Digest(Abs(last.input[k]))
            /\ \A r \in pre :
                  (r.treatment # last.treatment \/ r.path_hash \notin keys) => r \in queue
            /\ \A r \in queue :
                  (r.treatment # last.treatment \/ r.path_hash \notin keys) => r \in pre

\* C20 witness: an enqueue met a file that has vanished between two readable
\* files, left the row of the vanished file as it was and wrote the other two
C20_Witness ==
    /\ last.op = "enqueue" /\ last.exit = 0 /\ last.count = 2
    /\ Len(last.input) = 3
    /\ Readable(last.input) = {1, 3}
    /\ \E r \in pre : r.path = last.input[2] /\ r.treatment = last.treatment /\ r \in queue
    /\ \A k \in {1, 3} : <<last.input[k], last.treatment>> \in last.written

\* the lines of the input of the last enqueue that were written before the
\* line whose write failed
WrittenBeforeFailure(input) == {k \in Readable(input) : k < last.failAt}

\* C21: an enqueue whose write fails at a line ends with an error and prints
\* no count; the readable lines before that line are stored as reconciled,
\* and every other row, those of the failed line and of the lines after it
\* included, is as it was
C21_WriteFailureIsFatal ==
    (last.op = "enqueue" /\ last.exit # 0) =>
        LET done == WrittenBeforeFailure(last.input)
            keys == {pathHash(Abs(last.input[k])) : k \in done}
        IN  /\ last.printed = NULL
            /\ last.failAt \in Readable(last.input)
            /\ last.written = {<<Abs(last.input[k]), last.treatment>> : k \in done}
            /\ \A k \in done :
                  \E r \in RowsOf(queue, Abs(last.input[k]), last.treatment) :
                      r.content_hash = Digest(Abs(last.input[k]))
            /\ \A r \in pre :
                  (r.treatment # last.treatment \/ r.path_hash \notin keys) => r \in queue
            /\ \A r \in queue :
                  (r.treatment # last.treatment \/ r.path_hash \notin keys) => r \in pre

\* C21 witness: an enqueue failed at its second line; the row of the first
\* line is new and stored, the third line has no row
C21_Witness ==
    /\ last.op = "enqueue" /\ last.exit # 0 /\ last.failAt = 2 /\ Len(last.input) = 3
    /\ RowsOf(pre, last.input[1], last.treatment) = {}
    /\ RowsOf(queue, last.input[1], last.treatment) # {}
    /\ RowsOf(queue, last.input[3], last.treatment) = {}

\* C22: a done for a key that has no row leaves the table as it was and ends
\* without error
C22_DoneOnMissingIsNoOp ==
    (last.op = "done" /\ RowsOf(pre, last.path, last.treatment) = {}) =>
        /\ queue = pre
        /\ last.exit = 0

\* C22 witness: a done for a key without a row ran while the path has a row
\* under another treatment
C22_Witness ==
    /\ last.op = "done" /\ RowsOf(pre, last.path, last.treatment) = {}
    /\ \E r \in pre : r.path = last.path /\ r.treatment # last.treatment

C25_ResetNeedsConfirmation ==
    (last.op = "reset" /\ ~last.yes /\ last.response \notin {"y", "Y"}) =>
        /\ queue = pre
        /\ last.printed = NULL

\* C25 witness: a reset answered with yes ran on a table that holds rows of
\* its treatment
C25_Witness ==
    /\ last.op = "reset" /\ ~last.yes /\ last.response = "yes"
    /\ \E r \in pre : r.treatment = last.treatment

\* C24: a claim that gives only one of --shard and --total-shards, or a
\* shard index i and a count T without 0 <= i < T, ends with a validation
\* error, returns no item and leaves the table as it was
C24_ShardParameterValidation ==
    (/\ last.op = "claim"
     /\ \/ (last.shard = NULL) # (last.total = NULL)
        \/ /\ last.shard # NULL /\ last.total # NULL
           /\ (last.shard[1] < 0 \/ last.shard[1] >= last.total[1] \/ last.total[1] <= 0)) =>
        /\ last.exit # 0
        /\ last.out = <<>>
        /\ queue = pre

\* C24 witness: a claim whose shard index is its shard count was refused on a
\* table that holds a pending row of its treatment
C24_Witness ==
    /\ last.op = "claim" /\ last.exit # 0
    /\ last.shard # NULL /\ last.total # NULL /\ last.shard[1] = last.total[1]
    /\ Pending(pre, last.treatment) # {}

\* the least number of batches of n that hold k items
CeilDiv(k, n) == (k + n - 1) \div n

\* the hashes of a sequence of claimed items are strictly ascending
Ascending(got) ==
    \A i, j \in DOMAIN got : i < j => TextLess(got[i].PathHash, got[j].PathHash)

\* C26: in a cursor walk with batch size n >= 1 during which no row became
\* pending, the cursor is the last hash returned and every non-empty batch
\* moved it up, and the walk reaches its empty batch within ceil(k/n)+1
\* calls, k being the number of rows pending when it started
C26_WalkTermination ==
    (walk.active /\ walk.n >= 1 /\ ~walk.grown) =>
        /\ Ascending(walk.got)
        /\ walk.cursor = IF walk.got = <<>> THEN EmptyText
                         ELSE walk.got[Len(walk.got)].PathHash
        /\ walk.calls <= CeilDiv(walk.k0, walk.n) + 1
        /\ walk.calls = CeilDiv(walk.k0, walk.n) + 1 => walk.finished

\* C26 witness: a walk with batch size 2 over three pending rows ended with
\* its third call
C26_Witness ==
    /\ walk.active /\ walk.finished /\ ~walk.grown
    /\ walk.n = 2 /\ walk.k0 = 3 /\ walk.calls = 3

\* the rows pending in table q under treatment t with a hash above cursor
\* and up to h: the place of h in a claim from that cursor
Rank(q, t, cursor, h) ==
    Cardinality({r \in Pending(q, t) :
                    TextLess(cursor, r.path_hash) /\ ~TextLess(h, r.path_hash)})

\* the items a worker's walk was given that are still pending in table q and
\* lie above cursor
ClaimedOpen(q, cursor) ==
    {k \in DOMAIN walk.got :
        /\ TextLess(cursor, walk.got[k].PathHash)
        /\ \E r \in Pending(q, walk.treatment) : r.path_hash = walk.got[k].PathHash}

\* C28 as stated: an item a worker was given and that is not completed is
\* returned by every later claim with the treatment, a batch size n >= 1 and
\* a cursor below its hash
C28_AnyLaterClaimReturns ==
    (last.op = "claim" /\ last.exit = 0 /\ walk.active
        /\ last.treatment = walk.treatment /\ last.n >= 1) =>
        \A k \in ClaimedOpen(pre, last.cursor) :
            \E j \in DOMAIN last.out : last.out[j].PathHash = walk.got[k].PathHash

\* C28: an item a worker was given and that is not completed is returned by
\* every later claim with the treatment and a cursor below its hash whose
\* batch size reaches it, that is, is at least the number of pending rows
\* from the cursor up to it; and a claim with the treatment, cursor and n of
\* a worker's first claim, made while the table is as it was, returns the
\* batch that worker received
C28_DuplicateWork ==
    (last.op = "claim" /\ last.exit = 0 /\ walk.active
        /\ last.treatment = walk.treatment) =>
        /\ \A k \in ClaimedOpen(pre, last.cursor) :
              Rank(pre, last.treatment, last.cursor, walk.got[k].PathHash) <= last.n =>
                  \E j \in DOMAIN last.out : last.out[j].PathHash = walk.got[k].PathHash
        /\ (/\ walk.calls = 1 /\ ~walk.disturbed
            /\ last.cursor = EmptyText /\ last.n = walk.n) =>
              last.out = walk.got

\* C28 witness: after a worker was given two items, another claim with a
\* smaller batch size returned the first of them and not the second
C28_Witness ==
    /\ last.op = "claim" /\ walk.active /\ walk.calls = 1 /\ ~walk.disturbed
    /\ last.treatment = walk.treatment /\ last.cursor = EmptyText
    /\ Len(walk.got) = 2 /\ last.n = 1
    /\ last.out = <<walk.got[1]>>

\* C30: whatever enqueues and completions run between the calls of a cursor
\* walk, the hashes the walk returned are strictly ascending, and every hash
\* that was pending from the walk's start on is returned exactly once as
\* soon as the cursor has reached it, and at the latest when the walk ends
C30_WalkUnderMutation ==
    (walk.active /\ walk.n >= 1) =>
        /\ Ascending(walk.got)
        /\ \A h \in walk.steady :
              (walk.finished \/ ~TextLess(walk.cursor, h)) =>
                  Cardinality({k \in DOMAIN walk.got : walk.got[k].PathHash = h}) = 1

\* C30 witness: a walk went on after a row of its treatment was completed
\* under it, and its later batch returned a row that was pending throughout
C30_Witness ==
    /\ walk.active /\ walk.calls >= 2 /\ walk.disturbed
    /\ \E k \in DOMAIN walk.got :
          /\ walk.got[k].PathHash \in walk.steady
          /\ k > walk.n
    /\ Cardinality(walk.steady) < walk.k0

\* C27: once the worker loops of all shards run and the enqueues have
\* ended, the pending rows of the workers' treatment become none and stay
\* none
C27_EventualDrain ==
    <>[](shards.pc = <<>> \/ Pending(queue, WorkerTreatment) = {})

\* the rows whose hash is in the range of some shard are drained
ShardedRowsDrain ==
    <>[](shards.pc = <<>> \/
           \A r \in Pending(queue, WorkerTreatment) :
               \A i \in 0..(shards.total - 1) : ~InShard(r.path_hash, i, shards.total))

\* C29: a done by a worker for an item that it claimed when the row recorded
\* the file's content, and whose row now records another content and is
\* pending (the file changed and was enqueued again after the claim, and no
\* claim has returned the item since), does not leave the item completed
C29_StaleCompletion ==
    (/\ last.op = "done" /\ last.seen # NULL
     /\ ~last.seen[1].file.err /\ last.seen[1].file.hash = last.seen[1].row
     /\ \E r \in RowsOf(pre, last.path, last.treatment) :
           r.done_at = NULL /\ r.content_hash # last.seen[1].row) =>
        \A r \in RowsOf(queue, last.path, last.treatment) : r.done_at = NULL

\* C34: the count an enqueue prints when it ends without error is the
\* number of input lines that name a readable file, a line counted each time
\* it occurs, whatever the number of rows they make
C34_EnqueueCount ==
    (last.op = "enqueue" /\ last.exit = 0) =>
        last.printed = Some(Cardinality(Readable(last.input)))

\* C34 witness: an enqueue that listed a file twice, beside an empty line and
\* a missing file, printed 2 and the treatment holds one row
C34_Witness ==
    /\ last.op = "enqueue" /\ last.exit = 0 /\ last.printed = Some(2)
    /\ Len(last.input) = 4 /\ last.input[3] = last.input[4]
    /\ Cardinality({r \in queue : r.treatment = last.treatment}) = 1

\* the keys (path_hash, treatment) the last enqueue or done named
NamedKeys ==
    IF last.op = "enqueue"
    THEN {<<pathHash(Abs(last.input[k])), last.treatment>> :
             k \in {j \in DOMAIN last.input : last.input[j] # ""}}
    ELSE {<<pathHash(last.path), last.treatment>>}

\* C35: an enqueue or a done changes, adds and removes no row but those of
\* the keys (location, treatment) it names: the rows of another treatment,
\* the one of the same location included, and the rows of other locations
\* are as they were
C35_KeyIsolation ==
    (last.op \in {"enqueue", "done"}) =>
        /\ \A r \in pre : <<r.path_hash, r.treatment>> \notin NamedKeys => r \in queue
        /\ \A r \in queue : <<r.path_hash, r.treatment>> \notin NamedKeys => r \in pre

\* C35 witness: an enqueue or a done changed the row of a location while the
\* table held a row of that location under another treatment and a row of
\* another location
C35_Witness ==
    /\ last.op \in {"enqueue", "done"} /\ queue # pre
    /\ \E r \in queue \ pre :
          /\ \E o \in pre : o.path_hash = r.path_hash /\ o.treatment # r.treatment
          /\ \E o \in pre : o.path_hash # r.path_hash

\* C36: in every row done_at is NULL exactly when result is NULL
C36_CompletionFieldsTogether ==
    \A r \in queue : (r.done_at = NULL) <=> (r.result = NULL)

\* C36 witness: a row completed with the empty result, and a pending row
C36_Witness ==
    /\ \E r \in queue : r.done_at # NULL /\ r.result = Some("")
    /\ \E r \in queue : r.done_at = NULL /\ r.result = NULL

\* C37: a row with a next_at has a done_at
C37_RevisitOnlyWhenDone ==
    \A r \in queue : r.next_at # NULL => r.done_at # NULL

\* C37 witness: an enqueue re-activated a row that carried a revisit time
C37_Witness ==
    /\ last.op = "enqueue"
    /\ \E o \in pre, r \in queue :
          /\ o.path_hash = r.path_hash /\ o.treatment = r.treatment
          /\ o.next_at # NULL /\ r.done_at = NULL /\ r.next_at = NULL

\* C38: a row disappears only by a reset of its treatment, and a completed
\* row becomes pending only by an enqueue under its treatment that wrote its
\* key with another content hash
C38_LifecycleClosure ==
    \A o \in pre :
        LET now2 == {r \in queue : r.path_hash = o.path_hash /\ r.treatment = o.treatment}
        IN  /\ now2 = {} =>
                 /\ last.op = "reset" /\ last.treatment = o.treatment
                 /\ (last.yes \/ last.response \in {"y", "Y"})
            /\ (o.done_at # NULL /\ \E r \in now2 : r.done_at = NULL) =>
                 /\ last.op = "enqueue" /\ last.treatment = o.treatment
                 /\ <<o.path, o.treatment>> \in last.written
                 /\ \A r \in now2 : r.content_hash # o.content_hash

\* C38 witness: an enqueue turned a completed row back into a pending one
C38_Witness ==
    /\ last.op = "enqueue"
    /\ \E o \in pre, r \in queue :
          /\ o.path_hash = r.path_hash /\ o.treatment = r.treatment
          /\ o.done_at # NULL /\ r.done_at = NULL

\* C39: a done on a completed row ends without error, leaves the number of
\* rows as it was and stores its own done_at, result and next_at (NULL when
\* it has no revisit), whatever the row held
C39_LastWriterWins ==
    (/\ last.op = "done"
     /\ \E o \in RowsOf(pre, last.path, last.treatment) : o.done_at # NULL) =>
        /\ last.exit = 0
        /\ Cardinality(queue) = Cardinality(pre)
        /\ \A r \in RowsOf(queue, last.path, last.treatment) :
              /\ r.done_at = Some(last.goNow)
              /\ r.result = Some(last.result)
              /\ r.next_at = IF last.revisit = "" THEN NULL
                             ELSE Datetime(last.sqlNow, last.revisit)

\* C39 witness: a done without revisit on a row completed with another
\* result and a revisit time replaced the result and cleared the revisit time
C39_Witness ==
    /\ last.op = "done" /\ last.revisit = ""
    /\ \E o \in RowsOf(pre, last.path, last.treatment) :
          /\ o.done_at # NULL /\ o.next_at # NULL /\ o.result # Some(last.result)
    /\ \E r \in RowsOf(queue, last.path, last.treatment) :
          r.next_at = NULL /\ r.result = Some(last.result)

\* C40: a claim with a batch size of zero or less returns no item
C40_NonPositiveBatch ==
    (last.op = "claim" /\ last.n <= 0) => last.out = <<>>

\* the value of a hex digit character
HexDigit(c) == IF c >= 97 THEN c - 87 ELSE c - 48

\* the number a lower-case hex text spells
RECURSIVE ParseHex(_)
ParseHex(text) ==
    IF text = <<>> THEN 0
    ELSE 16 * ParseHex(SubSeq(text, 1, Len(text) - 1)) + HexDigit(text[Len(text)])

\* the leading digits of a hash as an unsigned integer (the leading 64 bits
\* in the program)
PrefixValue(h) == ParseHex(SubSeq(h, 1, PrefixDigits))

\* the bounds of the ranges looked up
ProbedBounds ==
    {probe.ranges[i].start : i \in DOMAIN probe.ranges}
        \cup {probe.ranges[i].end : i \in DOMAIN probe.ranges}

BoundsWellFormed(limit) ==
    probe.made =>
        LET T == probe.total
        IN  /\ \A i \in 0..(T - 1) :
                  LET v == PrefixValue(probe.ranges[i].start)
                  IN  /\ v * T <= i * PrefixSpace
                      /\ i * PrefixSpace < (v + 1) * T
                      /\ probe.ranges[i].start = FormatHex(v, PrefixDigits)
                            \o [k \in 1..(HashDigits - PrefixDigits) |-> 48]
            /\ \A i \in 0..(T - 2) :
                  TextLess(probe.ranges[i].start, probe.ranges[i + 1].start)
            /\ T <= limit =>
                  \A i \in 0..(T - 1) :
                      /\ TextLess(probe.ranges[i].start, probe.ranges[i].end)
                      /\ PrefixValue(probe.ranges[i].start) < PrefixValue(probe.ranges[i].end)

LiesInShard(h, i, T) ==
    /\ ~TextLess(h, calculateShardRange(i, T).start)
    /\ \/ TextLess(h, calculateShardRange(i, T).end)
       \/ i = T - 1 /\ h = calculateShardRange(i, T).end

\* C31: every item of a claim with a cursor and a shard has a hash above the
\* cursor and within the shard's range, the items ascend by hash and are at
\* most n; a cursor walk of a shard over an unchanged table returns exactly
\* the pending rows of the treatment whose hash lies in the shard, once each
C31_ShardedClaimWithCursor ==
    /\ (last.op = "claim" /\ last.exit = 0 /\ last.shard # NULL) =>
          /\ \A k \in DOMAIN last.out :
                /\ TextLess(last.cursor, last.out[k].PathHash)
                /\ LiesInShard(last.out[k].PathHash, last.shard[1], last.total[1])
          /\ \A k \in DOMAIN last.out :
                k < Len(last.out) =>
                    TextLess(last.out[k].PathHash, last.out[k + 1].PathHash)
          /\ Len(last.out) <= last.n
    /\ (walk.finished /\ ~walk.disturbed /\ walk.shard # NULL) =>
          LET owed == {r \in Pending(queue, walk.treatment) :
                          LiesInShard(r.path_hash, walk.shard[1], walk.total[1])}
          IN  /\ Len(walk.got) = Cardinality(owed)
              /\ \A r \in owed :
                    \E k \in DOMAIN walk.got :
                        walk.got[k].PathHash = r.path_hash /\ walk.got[k].Path = r.path
              /\ \A k \in DOMAIN walk.got :
                    \E r \in owed : walk.got[k].PathHash = r.path_hash

\* C31 witness: the worker of shard 1 of 2 paged through its shard with two
\* claims over an unchanged table and was given one row, while a pending row
\* of the treatment below its shard was left out
C31_Witness ==
    /\ walk.finished /\ ~walk.disturbed
    /\ walk.shard = Some(1) /\ walk.total = Some(2)
    /\ walk.calls = 2 /\ Len(walk.got) = 1
    /\ last.op = "claim" /\ last.cursor = walk.got[1].PathHash
    /\ \E r \in Pending(queue, walk.treatment) : TextLess(r.path_hash, walk.got[1].PathHash)

====
